---------------------------- MODULE Spec2Model ----------------------------
(***************************************************************************)
(* Model of src/galaxy.py: the connection discovery of the Galaxy helper   *)
(* (get_galaxy_connection and the functions it calls), and put and get,    *)
(* which use the connection.                                               *)
(*                                                                         *)
(* A Python str is a sequence of tokens.  "/" , ":" , "\n" and " " are the *)
(* characters the code looks at; every other token is a run of characters  *)
(* holding none of them ("http", "oldhost", "8080", "$DOCKER_HOST", ...).   *)
(* A function's result is a record: a return with its value, or a raise    *)
(* with the exception's class and the source line that raised it, and the  *)
(* read requests it has sent over the network (probes).                    *)
(***************************************************************************)
EXTENDS Integers, Sequences, FiniteSets, TLC

VARIABLES
    environ,   \* os.environ: the variables that are set, with their values
    net,       \* the world outside the process: netstat, the Galaxy API
               \* and the files under /import
    call,      \* the latest call of a function of the module, with its result
    earlier,   \* the latest call of get_galaxy_connection (or run of its
               \* lines 85-114) before that one
    ncalls     \* the number of calls made so far

vars == <<environ, net, call, earlier, ncalls>>

---------------------------------------------------------------------------
(* Bounds *)

\* calls made by one process
MaxCalls == 2

---------------------------------------------------------------------------
(* Python values *)

\* the None object (no str holds this token)
None == <<"<NoneType>">>

\* str(v), as '%s' formats it
str(v) == IF v = None THEN <<"None">> ELSE v

Return(v, probes) ==
    [kind |-> "return", value |-> v, exc |-> "", line |-> 0, probes |-> probes]

Raise(exc, line, probes) ==
    [kind |-> "raise", value |-> None, exc |-> exc, line |-> line, probes |-> probes]

\* the classes of the exceptions raised here; each derives from Exception
Exception_classes ==
    {"NameError", "OSError", "TypeError", "AttributeError", "ValueError",
     "ConnectionError", "Exception: No port", "Exception: Could not connect"}

WHITESPACE == {" ", "\n"}

RECURSIVE rstrip(_, _)
\* s.rstrip(chars)
rstrip(s, chars) ==
    IF s # <<>> /\ s[Len(s)] \in chars
    THEN rstrip(SubSeq(s, 1, Len(s) - 1), chars)
    ELSE s

RECURSIVE lstrip(_, _)
lstrip(s, chars) ==
    IF s # <<>> /\ s[1] \in chars THEN lstrip(Tail(s), chars) ELSE s

\* s.strip()
strip(s) == lstrip(rstrip(s, WHITESPACE), WHITESPACE)

RECURSIVE split(_, _)
\* s.split(sep): the list of the pieces between the separators
split(s, sep) ==
    IF \A i \in 1..Len(s) : s[i] # sep
    THEN <<s>>
    ELSE LET i == CHOOSE j \in 1..Len(s) :
                      s[j] = sep /\ \A k \in 1..(j - 1) : s[k] # sep
         IN  <<SubSeq(s, 1, i - 1)>> \o split(SubSeq(s, i + 1, Len(s)), sep)

RECURSIVE join(_, _)
\* sep.join(pieces)
join(sep, pieces) ==
    IF pieces = <<>> THEN <<>>
    ELSE IF Len(pieces) = 1 THEN pieces[1]
    ELSE pieces[1] \o sep \o join(sep, Tail(pieces))

\* pieces[n:]
slice_from(pieces, n) ==
    IF Len(pieces) <= n THEN <<>> ELSE SubSeq(pieces, n + 1, Len(pieces))

RECURSIVE safe_substitute(_, _)
\* Template(template).safe_substitute({'DOCKER_HOST': value}) on a str:
\* $DOCKER_HOST and ${DOCKER_HOST} become the value, $$ becomes $, any other
\* placeholder stays as it is
safe_substitute(template, value) ==
    IF template = <<>> THEN <<>>
    ELSE LET head == template[1]
             rest == safe_substitute(Tail(template), value)
         IN  IF head \in {"$DOCKER_HOST", "${DOCKER_HOST}"} THEN str(value) \o rest
             ELSE IF head = "$$" THEN <<"$">> \o rest
             ELSE <<head>> \o rest

---------------------------------------------------------------------------
(* Module level: lines 1-22 *)

ENV_KEYS == {"DEBUG", "GALAXY_WEB_PORT", "NOTEBOOK_PASSWORD", "CORS_ORIGIN",
             "DOCKER_PORT", "API_KEY", "HISTORY_ID", "REMOTE_HOST",
             "GALAXY_URL"}

DEFAULT_USE_OBJECTS == TRUE

\* key.lower()
lower(key) ==
    CASE key = "DEBUG" -> "debug"
      [] key = "GALAXY_WEB_PORT" -> "galaxy_web_port"
      [] key = "NOTEBOOK_PASSWORD" -> "notebook_password"
      [] key = "CORS_ORIGIN" -> "cors_origin"
      [] key = "DOCKER_PORT" -> "docker_port"
      [] key = "API_KEY" -> "api_key"
      [] key = "HISTORY_ID" -> "history_id"
      [] key = "REMOTE_HOST" -> "remote_host"
      [] key = "GALAXY_URL" -> "galaxy_url"

\* the names bound in the module's namespace when a function body runs:
\* the imports, the assignments of lines 12-22 and the functions
module_globals ==
    {"galaxy", "ToolClient", "HistoryClient", "DatasetClient", "objects",
     "subprocess", "argparse", "os", "Template", "logging",
     "DEBUG", "tlog", "DEFAULT_USE_OBJECTS", "ENV_KEYS",
     "_get_conf", "_get_ip", "_test_url", "get_galaxy_connection",
     "_get_history_id", "put", "get"}

\* log.debug(...): looking up the name log comes first
log_debug(line, probes) ==
    IF "log" \in module_globals
    THEN Return(None, probes)
    ELSE Raise("NameError", line, probes)

---------------------------------------------------------------------------
(* _get_conf: lines 25-30 *)

\* os.environ.get(key, None)
environ_get(env, key) == IF key \in DOMAIN env THEN env[key] ELSE None

\* the keys of the dict _get_conf builds
conf_keys == {lower(key) : key \in ENV_KEYS} \cup {"galaxy_paster_port"}

\* the variant without line 29: no galaxy_paster_port entry
get_conf_without_paster_port(env) ==
    [k \in {lower(key) : key \in ENV_KEYS} |->
        LET key == CHOOSE key \in ENV_KEYS : lower(key) = k
        IN  environ_get(env, key)]

_get_conf(env) ==
    LET conf == [k \in {lower(key) : key \in ENV_KEYS} |->
                    LET key == CHOOSE key \in ENV_KEYS : lower(key) = k
                    IN  environ_get(env, key)]
    IN  [k \in DOMAIN conf \cup {"galaxy_paster_port"} |->
            IF k = "galaxy_paster_port" THEN conf["galaxy_web_port"] ELSE conf[k]]

---------------------------------------------------------------------------
(* _get_ip: lines 33-44 *)

\* subprocess.Popen(['netstat', '-nr'], ...): fails when there is no netstat
Popen_netstat(world) ==
    IF world.netstat_installed
    THEN Return(None, <<>>)
    ELSE Raise("OSError", 37, <<>>)

_get_ip(world) ==
    LET p1 == Popen_netstat(world)
    IN  IF p1.kind = "raise" THEN p1
        ELSE LET galaxy_ip == world.default_route   \* p3.stdout.read()
                 logged == log_debug(43, <<>>)
             IN  IF logged.kind = "raise" THEN logged
                 ELSE Return(galaxy_ip, <<>>)

---------------------------------------------------------------------------
(* The bioblend client, as _test_url uses it: lines 52-56 *)

\* what the API does at a URL
api_status(world, url) ==
    IF url \in DOMAIN world.api THEN world.api[url] ELSE "read_raises"

\* objects.GalaxyInstance(url, key) and galaxy.GalaxyInstance(url=url, key=key)
GalaxyInstance(world, url, key, use_objects) ==
    IF api_status(world, url) = "ctor_raises"
    THEN Raise("ValueError", IF use_objects THEN 52 ELSE 55, <<>>)
    ELSE Return(<<"GalaxyInstance", url, key, use_objects>>, <<>>)

\* gi.histories.get(history_id): one read request for the history
histories_get(world, gi, history_id) ==
    LET request == <<"histories.get", gi[2], gi[3], history_id>>
    IN  IF /\ api_status(world, gi[2]) = "ok"
           /\ gi[3] \in world.keys
           /\ history_id \in world.histories
        THEN Return(<<"History", history_id>>, <<request>>)
        ELSE Raise("ConnectionError", 53, <<request>>)

\* gi.histories.get_histories(): one read request for the list of histories
get_histories(world, gi) ==
    LET request == <<"histories.get_histories", gi[2], gi[3], None>>
    IN  IF /\ api_status(world, gi[2]) = "ok"
           /\ gi[3] \in world.keys
        THEN Return(<<"histories">>, <<request>>)
        ELSE Raise("ConnectionError", 56, <<request>>)

---------------------------------------------------------------------------
(* _test_url: lines 47-60 *)

\* the variant whose direct mode confirms that the named history is listed
test_url_try_confirming(world, url, key, history_id, use_objects) ==
    LET made == GalaxyInstance(world, url, key, use_objects)
    IN  IF made.kind = "raise" THEN made
        ELSE LET gi == made.value
                 listed == get_histories(world, gi)
                 read == IF use_objects
                         THEN histories_get(world, gi, history_id)
                         ELSE IF listed.kind = "return"
                                 /\ history_id \notin world.histories
                         THEN Raise("KeyError", 56, listed.probes)
                         ELSE listed
             IN  IF read.kind = "raise" THEN read
                 ELSE LET logged == log_debug(57, read.probes)
                      IN  IF logged.kind = "raise" THEN logged
                          ELSE Return(gi, read.probes)

\* the body of the try statement, lines 51-58
test_url_try(world, url, key, history_id, use_objects) ==
    LET made == GalaxyInstance(world, url, key, use_objects)
    IN  IF made.kind = "raise" THEN made
        ELSE LET gi == made.value
                 read == IF use_objects
                         THEN histories_get(world, gi, history_id)
                         ELSE get_histories(world, gi)
             IN  IF read.kind = "raise" THEN read
                 ELSE LET logged == log_debug(57, read.probes)
                      IN  IF logged.kind = "raise" THEN logged
                          ELSE Return(gi, read.probes)

\* the propagating variant: no except clause
test_url_propagates(world, url, key, history_id, use_objects) ==
    test_url_try(world, url, key, history_id, use_objects)

_test_url(world, url, key, history_id, use_objects) ==
    LET tried == test_url_try(world, url, key, history_id, use_objects)
    IN  IF tried.kind = "raise" /\ tried.exc \in Exception_classes
        THEN Return(None, tried.probes)      \* except Exception: return None
        ELSE tried

---------------------------------------------------------------------------
(* get_galaxy_connection: lines 63-114 *)

\* Template(conf['galaxy_url']).safe_substitute({'DOCKER_HOST': galaxy_ip}),
\* line 86
templated_url(conf, galaxy_ip) ==
    IF conf["galaxy_url"] = None
    THEN Raise("TypeError", 86, <<>>)
    ELSE Return(safe_substitute(conf["galaxy_url"], galaxy_ip), <<>>)

\* lines 93-95
app_path_of(galaxy_url) ==
    join(<<>>, slice_from(split(rstrip(galaxy_url, {"/"}), "/"), 3))

\* 'http://%s:%s/%s' % (galaxy_ip.strip(), galaxy_port, app_path.strip()),
\* then .rstrip('/'): lines 106-107
built_galaxy_url(galaxy_ip, galaxy_port, app_path) ==
    rstrip(<<"http", ":", "/", "/">> \o strip(galaxy_ip) \o <<":">>
               \o str(galaxy_port) \o <<"/">> \o strip(app_path),
           {"/"})

\* the failover URL, lines 93-107
failover_url(conf, galaxy_ip) ==
    IF conf["galaxy_url"] = None
    THEN Raise("AttributeError", 93, <<>>)
    ELSE LET app_path == app_path_of(conf["galaxy_url"])
         IN  IF "galaxy_paster_port" \notin DOMAIN conf
             THEN Raise("Exception: No port", 100, <<>>)
             ELSE Return(built_galaxy_url(galaxy_ip,
                                          conf["galaxy_paster_port"],
                                          app_path), <<>>)

\* the variant that probes candidate 2 without the configured history id
failover_without_history_id(world, conf, galaxy_ip, use_objects, probes) ==
    LET built == failover_url(conf, galaxy_ip)
    IN  IF built.kind = "raise"
        THEN Raise(built.exc, built.line, probes)
        ELSE LET gi == _test_url(world, built.value, conf["api_key"], None,
                                 use_objects)
             IN  IF gi.value # None
                 THEN Return(gi.value, probes \o gi.probes)
                 ELSE Raise("Exception: Could not connect", 114,
                            probes \o gi.probes)

\* lines 91-114, after the first probe has returned None
failover(world, conf, galaxy_ip, use_objects, probes) ==
    LET built == failover_url(conf, galaxy_ip)
    IN  IF built.kind = "raise"
        THEN Raise(built.exc, built.line, probes)
        ELSE LET gi == _test_url(world, built.value, conf["api_key"],
                                 conf["history_id"], use_objects)
             IN  IF gi.value # None
                 THEN Return(gi.value, probes \o gi.probes)
                 ELSE Raise("Exception: Could not connect", 114,
                            probes \o gi.probes)

\* lines 85-114, once _get_ip has returned galaxy_ip
probe_candidates(world, conf, galaxy_ip, use_objects) ==
    LET history_id == conf["history_id"]
        key == conf["api_key"]
        url == templated_url(conf, galaxy_ip)
    IN  IF url.kind = "raise" THEN url
        ELSE LET gi == _test_url(world, url.value, key, history_id,
                                 use_objects)
             IN  IF gi.value # None
                 THEN Return(gi.value, gi.probes)
                 ELSE failover(world, conf, galaxy_ip, use_objects,
                               gi.probes)

\* the variant that keeps state between calls: once a call has failed, the
\* next call gives up without looking anything up
get_galaxy_connection_once(env, world, use_objects) ==
    IF call.fn = "get_galaxy_connection" /\ call.result.kind = "raise"
    THEN Raise("Exception: Could not connect", 114, <<>>)
    ELSE LET got_ip == _get_ip(world)
         IN  IF got_ip.kind = "raise" THEN got_ip
             ELSE probe_candidates(world, _get_conf(env), got_ip.value,
                                   use_objects)

get_galaxy_connection(env, world, use_objects) ==
    LET conf == _get_conf(env)
        got_ip == _get_ip(world)
    IN  IF got_ip.kind = "raise" THEN got_ip
        ELSE probe_candidates(world, conf, got_ip.value, use_objects)

---------------------------------------------------------------------------
(* put and get: lines 117-168; the command line: lines 171-186 *)

\* _get_history_id(), lines 117-122
_get_history_id(env) == _get_conf(env)["history_id"]

\* the history of the server holds one dataset, of hid 1
history_datasets == {1}

\* '/import/%s' % dataset_id, line 148
import_path(dataset_id) == <<"/", "import", "/", ToString(dataset_id)>>

\* a function's result together with the world it leaves
outcome(result, world) == [result |-> result, world |-> world]

\* a request that changes or fetches data, sent through the handle gi
api_request(world, gi, op, history_id, line) ==
    LET request == <<op, gi[2], gi[3], history_id>>
    IN  IF /\ api_status(world, gi[2]) = "ok"
           /\ gi[3] \in world.keys
           /\ history_id \in world.histories
        THEN Return(None, <<request>>)
        ELSE Raise("ConnectionError", line, <<request>>)

\* a request for a dataset by its own id, with no history named
dataset_request(world, gi, op, line) ==
    LET request == <<op, gi[2], gi[3], None>>
    IN  IF api_status(world, gi[2]) = "ok" /\ gi[3] \in world.keys
        THEN Return(None, <<request>>)
        ELSE Raise("ConnectionError", line, <<request>>)

\* a statement that calls the API: when the call raised, the function ends
\* with that exception at the statement's line and leaves the world as it
\* is; otherwise the statements after it run
statement(called_api, line, probes, world, after_it) ==
    IF called_api.kind = "raise"
    THEN outcome(Raise(called_api.exc, line, probes \o called_api.probes), world)
    ELSE after_it

\* the world once the file has been uploaded into the history
with_upload(world, history_id, filename) ==
    [world EXCEPT !.uploaded = @ \cup {<<history_id, filename>>}]

\* the world once the file exists under /import
with_file(world, file_path) ==
    [world EXCEPT !.files = @ \cup {file_path}]

\* line 134, after line 133 has returned the history
put_upload_dataset(world, gi, filename, history_id, probes) ==
    LET up == api_request(world, gi, "upload_dataset", history_id, 134)
    IN  statement(up, 134, probes, world,
                  outcome(Return(None, probes \o up.probes),
                          with_upload(world, history_id, filename)))

\* lines 136-137
put_upload_file(world, gi, filename, history_id, probes) ==
    LET up == api_request(world, gi, "upload_file", history_id, 137)
    IN  statement(up, 137, probes, world,
                  outcome(Return(None, probes \o up.probes),
                          with_upload(world, history_id, filename)))

\* lines 132-137, with the handle gi
put_upload(world, gi, filename, file_type, history_id, use_objects, probes) ==
    IF use_objects
    THEN LET history == histories_get(world, gi, history_id)
         IN  statement(history, 133, probes, world,
                       put_upload_dataset(world, gi, filename, history_id,
                                          probes \o history.probes))
    ELSE put_upload_file(world, gi, filename, history_id, probes)

\* lines 131-137, once get_galaxy_connection has ended with connected
put_connected(connected, world, filename, file_type, history_id, use_objects) ==
    IF connected.kind = "raise" THEN outcome(connected, world)
    ELSE put_upload(world, connected.value, filename, file_type, history_id,
                    use_objects, connected.probes)

put(env, world, filename, file_type, history_id, use_objects) ==
    put_connected(get_galaxy_connection(env, world, use_objects), world,
                  filename, file_type, history_id, use_objects)

\* line 158: open(file_path, 'wb') makes the file, then the download fills it
get_download_158(world, gi, file_path, history_id, probes) ==
    LET loaded == api_request(world, gi, "download", history_id, 158)
    IN  statement(loaded, 158, probes, with_file(world, file_path),
                  outcome(Return(file_path, probes \o loaded.probes),
                          with_file(world, file_path)))

\* line 157: datasets[dataset_id], then history.get_dataset
get_download_157(world, gi, dataset_id, history_id, probes) ==
    IF dataset_id \notin history_datasets
    THEN outcome(Raise("KeyError", 157, probes), world)
    ELSE LET fetched == api_request(world, gi, "get_dataset", history_id, 157)
         IN  statement(fetched, 157, probes, world,
                       get_download_158(world, gi, import_path(dataset_id),
                                        history_id, probes \o fetched.probes))

\* line 156: history.get_datasets()
get_download_156(world, gi, dataset_id, history_id, probes) ==
    LET listed == api_request(world, gi, "get_datasets", history_id, 156)
    IN  statement(listed, 156, probes, world,
                  get_download_157(world, gi, dataset_id, history_id,
                                   probes \o listed.probes))

\* lines 154-158: the download in the object mode
get_download_objects(world, gi, dataset_id, history_id, probes) ==
    LET history == histories_get(world, gi, history_id)
    IN  statement(history, 155, probes, world,
                  get_download_156(world, gi, dataset_id, history_id,
                                   probes \o history.probes))

\* line 166: the except clause of line 165 downloads by the dataset's id
get_download_166(world, gi, file_path, probes) ==
    LET by_dataset == dataset_request(world, gi, "download_dataset", 166)
    IN  statement(by_dataset, 166, probes, world,
                  outcome(Return(file_path, probes \o by_dataset.probes),
                          with_file(world, file_path)))

\* lines 163-166
get_download_164(world, gi, dataset_id, history_id, probes) ==
    IF dataset_id \notin history_datasets
    THEN \* KeyError at line 164, caught by the bare except, and again at 166
         outcome(Raise("KeyError", 166, probes), world)
    ELSE LET by_history == api_request(world, gi, "download_dataset",
                                       history_id, 164)
         IN  IF by_history.kind = "return"
             THEN outcome(Return(import_path(dataset_id),
                                 probes \o by_history.probes),
                          with_file(world, import_path(dataset_id)))
             ELSE get_download_166(world, gi, import_path(dataset_id),
                                   probes \o by_history.probes)

\* lines 160-166: the download in the direct mode
get_download_direct(world, gi, dataset_id, history_id, probes) ==
    LET shown == api_request(world, gi, "show_history", history_id, 162)
    IN  statement(shown, 162, probes, world,
                  get_download_164(world, gi, dataset_id, history_id,
                                   probes \o shown.probes))

\* lines 148-168, with the handle gi
get_cached(world, gi, dataset_id, history_id, use_objects, probes) ==
    IF import_path(dataset_id) \in world.files               \* os.path.exists
    THEN outcome(Return(import_path(dataset_id), probes), world)
    ELSE IF use_objects
    THEN get_download_objects(world, gi, dataset_id, history_id, probes)
    ELSE get_download_direct(world, gi, dataset_id, history_id, probes)

\* lines 146-168, once get_galaxy_connection has ended with connected
get_connected(connected, world, dataset_id, history_id, use_objects) ==
    IF connected.kind = "raise" THEN outcome(connected, world)
    ELSE get_cached(world, connected.value, dataset_id, history_id,
                    use_objects, connected.probes)

get(env, world, dataset_id, history_id, use_objects) ==
    get_connected(get_galaxy_connection(env, world, use_objects), world,
                  dataset_id, history_id, use_objects)

\* lines 180-186: args.history_id or _get_history_id(), then get or put
main(env, world, action, argument, args_history_id) ==
    LET history_id == IF args_history_id \notin {None, <<>>}
                      THEN args_history_id
                      ELSE _get_history_id(env)
    IN  IF action = "get"
        THEN get(env, world, argument, history_id, DEFAULT_USE_OBJECTS)
        ELSE IF action = "put"
        THEN put(env, world, argument, <<"auto">>, history_id,
                 DEFAULT_USE_OBJECTS)
        ELSE outcome(Return(None, <<>>), world)

---------------------------------------------------------------------------
(* The inputs: environments and worlds *)

DOCKER_IP == <<"172.17.0.1">>

\* GALAXY_URL values
TemplateDocker == <<"http", ":", "/", "/", "$DOCKER_HOST", ":", "8080", "/", "galaxy">>
TemplateOld == <<"http", ":", "/", "/", "oldhost", ":", "8080", "/", "galaxy", "/">>
TemplateDeep == <<"http", ":", "/", "/", "oldhost", ":", "8080", "/", "a", "/", "b">>

Templates == {TemplateDocker, TemplateOld, TemplateDeep}

\* the URLs at which a Galaxy API may answer
UrlGateway == <<"http", ":", "/", "/">> \o DOCKER_IP \o <<":", "8080", "/", "galaxy">>
ApiUrls == {UrlGateway, TemplateOld}

\* os.environ with the given settings (None: the variable is not set)
environ_of(galaxy_url, port, key, history_id) ==
    LET setting == [k \in {"GALAXY_URL", "GALAXY_WEB_PORT", "API_KEY", "HISTORY_ID"} |->
                       CASE k = "GALAXY_URL" -> galaxy_url
                         [] k = "GALAXY_WEB_PORT" -> port
                         [] k = "API_KEY" -> key
                         [] k = "HISTORY_ID" -> history_id]
    IN  [k \in {k \in DOMAIN setting : setting[k] # None} |-> setting[k]]

Environs ==
    {environ_of(u, p, k, h) :
        u \in Templates \cup {None}, p \in {<<"8080">>, None},
        k \in {<<"secret">>, None}, h \in {<<"h1">>, None}}

Worlds ==
    {[netstat_installed |-> i, default_route |-> r, api |-> a,
      keys |-> {<<"secret">>}, histories |-> h, files |-> f,
      uploaded |-> {}] :
        i \in BOOLEAN, r \in {<<>>, DOCKER_IP \o <<"\n">>},
        a \in [ApiUrls -> {"ok", "ctor_raises", "read_raises"}],
        h \in {{}, {<<"h1">>}}, f \in {{}, {import_path(1)}}}

\* the dataset numbers and the file name given to get and put
DatasetIds == {1, 2}
Filename == <<"result.tsv">>

NoCall == [fn |-> "", args |-> <<>>, result |-> Return(None, <<>>)]

---------------------------------------------------------------------------
(* The state machine: a process that calls the module's functions *)

Init ==
    /\ environ \in Environs
    /\ net \in {w \in Worlds : /\ w.netstat_installed \/ w.default_route = <<>>
                              /\ w.files = {}}
    /\ call = NoCall
    /\ earlier = NoCall
    /\ ncalls = 0

\* the record of a call
called(fn, args, result) == [fn |-> fn, args |-> args, result |-> result]

\* what earlier becomes when the next call is made
remembered ==
    IF call.fn \in {"get_galaxy_connection", "probe_candidates"}
    THEN call ELSE earlier

Call_get_conf ==
    /\ ncalls < MaxCalls
    /\ call' = called("_get_conf", <<>>, Return(_get_conf(environ), <<>>))
    /\ earlier' = remembered
    /\ ncalls' = ncalls + 1
    /\ UNCHANGED <<environ, net>>

Call_get_ip ==
    /\ ncalls < MaxCalls
    /\ call' = called("_get_ip", <<>>, _get_ip(net))
    /\ earlier' = remembered
    /\ ncalls' = ncalls + 1
    /\ UNCHANGED <<environ, net>>

Call_test_url ==
    /\ ncalls < MaxCalls
    /\ \E url \in ApiUrls, use_objects \in BOOLEAN :
          LET conf == _get_conf(environ)
          IN  call' = called("_test_url",
                             <<url, conf["api_key"], conf["history_id"], use_objects>>,
                             _test_url(net, url, conf["api_key"],
                                       conf["history_id"], use_objects))
    /\ earlier' = remembered
    /\ ncalls' = ncalls + 1
    /\ UNCHANGED <<environ, net>>

Call_get_galaxy_connection ==
    /\ ncalls < MaxCalls
    /\ \E use_objects \in BOOLEAN :
          call' = called("get_galaxy_connection", <<use_objects>>,
                         get_galaxy_connection(environ, net, use_objects))
    /\ earlier' = remembered
    /\ ncalls' = ncalls + 1
    /\ UNCHANGED <<environ, net>>

Next ==
    \/ Call_get_conf
    \/ Call_get_ip
    \/ Call_test_url
    \/ Call_get_galaxy_connection

Spec == Init /\ [][Next]_vars

---------------------------------------------------------------------------
(* A process that transfers files: it calls put and get, or is the command *)
(* line of lines 171-186.                                                  *)

InitTransfer ==
    /\ environ \in {environ_of(u, <<"8080">>, k, h) :
                       u \in {TemplateDocker, TemplateOld},
                       k \in {<<"secret">>, None}, h \in {<<"h1">>, None}}
    /\ net \in {w \in Worlds : w.netstat_installed \/ w.default_route = <<>>}
    /\ call = NoCall
    /\ earlier = NoCall
    /\ ncalls = 0

Call_put ==
    /\ ncalls < MaxCalls
    /\ \E history_id \in {None, <<"h1">>}, use_objects \in BOOLEAN :
          LET done == put(environ, net, Filename, <<"auto">>, history_id,
                          use_objects)
          IN  /\ call' = called("put", <<Filename, history_id, use_objects>>,
                                done.result)
              /\ net' = done.world
    /\ earlier' = remembered
    /\ ncalls' = ncalls + 1
    /\ UNCHANGED environ

\* the fourth element of the record's arguments is what os.path.exists says
\* of /import/<dataset_id> when the call is made
Call_get ==
    /\ ncalls < MaxCalls
    /\ \E dataset_id \in DatasetIds, history_id \in {None, <<"h1">>},
          use_objects \in BOOLEAN :
          LET done == get(environ, net, dataset_id, history_id, use_objects)
          IN  /\ call' = called("get",
                                <<dataset_id, history_id, use_objects,
                                  import_path(dataset_id) \in net.files>>,
                                done.result)
              /\ net' = done.world
    /\ earlier' = remembered
    /\ ncalls' = ncalls + 1
    /\ UNCHANGED environ

\* lines 132-137 of put, run with a handle on a URL of the API
Run_put_upload ==
    /\ ncalls < MaxCalls
    /\ \E url \in ApiUrls, history_id \in {None, <<"h1">>},
          use_objects \in BOOLEAN :
          LET gi == <<"GalaxyInstance", url, _get_conf(environ)["api_key"],
                      use_objects>>
              done == put_upload(net, gi, Filename, <<"auto">>, history_id,
                                 use_objects, <<>>)
          IN  /\ call' = called("put_upload",
                                <<Filename, history_id, use_objects, url>>,
                                done.result)
              /\ net' = done.world
    /\ earlier' = remembered
    /\ ncalls' = ncalls + 1
    /\ UNCHANGED environ

\* lines 148-168 of get, run with a handle on a URL of the API
Run_get_cached ==
    /\ ncalls < MaxCalls
    /\ \E url \in ApiUrls, dataset_id \in DatasetIds,
          history_id \in {None, <<"h1">>}, use_objects \in BOOLEAN :
          LET gi == <<"GalaxyInstance", url, _get_conf(environ)["api_key"],
                      use_objects>>
              done == get_cached(net, gi, dataset_id, history_id, use_objects,
                                 <<>>)
          IN  /\ call' = called("get_cached",
                                <<dataset_id, history_id, use_objects,
                                  import_path(dataset_id) \in net.files, url>>,
                                done.result)
              /\ net' = done.world
    /\ earlier' = remembered
    /\ ncalls' = ncalls + 1
    /\ UNCHANGED environ

\* python galaxy.py --action <action> --argument <argument>
Call_main ==
    /\ ncalls < MaxCalls
    /\ \E action \in {"get", "put"} :
          LET argument == IF action = "get" THEN 1 ELSE Filename
              done == main(environ, net, action, argument, None)
          IN  /\ call' = called("main", <<action, argument, None>>, done.result)
              /\ net' = done.world
    /\ earlier' = remembered
    /\ ncalls' = ncalls + 1
    /\ UNCHANGED environ

NextTransfer ==
    \/ Call_put
    \/ Call_get
    \/ Call_main
    \/ Run_put_upload
    \/ Run_get_cached

SpecTransfer == InitTransfer /\ [][NextTransfer]_vars

---------------------------------------------------------------------------
(* The failover block of get_galaxy_connection (lines 91-114) on its own:  *)
(* the configured URL is drawn from the URLs of the form                   *)
(* <protocol>://<host>[:<port>]/<path>, galaxy_ip is what the netstat      *)
(* pipeline prints, and the block is run on them.                          *)

\* segments of the path of a configured URL
MaxSegments == 2
\* slashes at the end of a configured URL
MaxTrailing == 2

PathSegments == {<<"galaxy">>, <<"a">>}

Paths == UNION {[1..n -> PathSegments] : n \in 1..MaxSegments}

RECURSIVE slashes(_)
slashes(n) == IF n = 0 THEN <<>> ELSE <<"/">> \o slashes(n - 1)

\* <protocol>://<host>[:<port>]/<path> followed by n slashes
url_form(protocol, host, port, path, n) ==
    protocol \o <<":", "/", "/">> \o host
        \o (IF port = None THEN <<>> ELSE <<":">> \o port)
        \o <<"/">> \o join(<<"/">>, path) \o slashes(n)

FormUrls ==
    {url_form(pr, <<"oldhost">>, po, pa, n) :
        pr \in {<<"http">>, <<"https">>}, po \in {<<"8080">>, None},
        pa \in Paths, n \in 0..MaxTrailing}

InitFailover ==
    /\ environ \in {environ_of(u, p, <<"secret">>, <<"h1">>) :
                       u \in FormUrls, p \in {<<"9090">>, None}}
    /\ net \in {w \in Worlds : w.netstat_installed /\ w.files = {}}
    /\ call = NoCall
    /\ earlier = NoCall
    /\ ncalls = 0

\* lines 93-107: the failover URL is built
Run_failover_url ==
    /\ ncalls < MaxCalls
    /\ call' = called("failover_url", <<net.default_route>>,
                       failover_url(_get_conf(environ), net.default_route))
    /\ earlier' = remembered
    /\ ncalls' = ncalls + 1
    /\ UNCHANGED <<environ, net>>

\* lines 91-114: the block runs after the first probe has returned None
Run_failover ==
    /\ ncalls < MaxCalls
    /\ \E use_objects \in BOOLEAN :
          call' = called("failover", <<net.default_route, use_objects>>,
                         failover(net, _get_conf(environ), net.default_route,
                                  use_objects, <<>>))
    /\ earlier' = remembered
    /\ ncalls' = ncalls + 1
    /\ UNCHANGED <<environ, net>>

NextFailover ==
    \/ Run_failover_url
    \/ Run_failover

SpecFailover == InitFailover /\ [][NextFailover]_vars

---------------------------------------------------------------------------
(* The blocks of _test_url and get_galaxy_connection on their own: the try  *)
(* body of lines 51-58, the substitution of line 86 and lines 85-114 are   *)
(* run on a configuration and on what the netstat pipeline prints.         *)

\* GALAXY_URL values with the placeholder in braces and with an escaped $
TemplateBraced == <<"http", ":", "/", "/", "${DOCKER_HOST}", ":", "8080", "/", "galaxy">>
TemplateEscaped == <<"http", ":", "/", "/", "oldhost", ":", "8080", "/", "a", "$$", "b">>

BlockTemplates == Templates \cup {TemplateBraced, TemplateEscaped}

InitBlocks ==
    /\ environ \in {environ_of(u, p, k, h) :
                       u \in BlockTemplates \cup {None}, p \in {<<"8080">>, None},
                       k \in {<<"secret">>, None}, h \in {<<"h1">>, None}}
    /\ net \in {w \in Worlds : w.netstat_installed /\ w.files = {}}
    /\ call = NoCall
    /\ earlier = NoCall
    /\ ncalls = 0

\* lines 51-58: the try body of _test_url
Run_test_url_try ==
    /\ ncalls < MaxCalls
    /\ \E url \in ApiUrls, use_objects \in BOOLEAN :
          LET conf == _get_conf(environ)
          IN  call' = called("test_url_try",
                             <<url, conf["api_key"], conf["history_id"], use_objects>>,
                             test_url_try(net, url, conf["api_key"],
                                          conf["history_id"], use_objects))
    /\ earlier' = remembered
    /\ ncalls' = ncalls + 1
    /\ UNCHANGED <<environ, net>>

\* line 86: candidate 1 is made from the template
Run_templated_url ==
    /\ ncalls < MaxCalls
    /\ call' = called("templated_url", <<net.default_route>>,
                       templated_url(_get_conf(environ), net.default_route))
    /\ earlier' = remembered
    /\ ncalls' = ncalls + 1
    /\ UNCHANGED <<environ, net>>

\* lines 85-114: the candidates are probed, _get_ip having returned
Run_probe_candidates ==
    /\ ncalls < MaxCalls
    /\ \E use_objects \in BOOLEAN :
          call' = called("probe_candidates", <<use_objects>>,
                         probe_candidates(net, _get_conf(environ),
                                          net.default_route, use_objects))
    /\ earlier' = remembered
    /\ ncalls' = ncalls + 1
    /\ UNCHANGED <<environ, net>>

NextBlocks ==
    \/ Run_test_url_try
    \/ Run_templated_url
    \/ Run_probe_candidates
    \/ Call_get_galaxy_connection

SpecBlocks == InitBlocks /\ [][NextBlocks]_vars

---------------------------------------------------------------------------
(* One invocation of get_galaxy_connection, statement by statement: the     *)
(* record of the call holds, while the invocation runs, the line it has     *)
(* reached, the requests sent so far and the local it goes on with          *)
(* (galaxy_ip up to line 107, galaxy_url from line 109 on).  An invocation  *)
(* is entered at line 79 or, _get_ip having returned, at line 85.  Every    *)
(* blocking call (the netstat pipeline, a probe) returns or raises, which   *)
(* is the fairness of SpecSteps.                                            *)

Running(line, value, probes) ==
    [kind |-> "running", value |-> value, exc |-> "", line |-> line,
     probes |-> probes]

running == call.result.kind = "running"

InitSteps ==
    /\ environ \in {environ_of(u, p, <<"secret">>, h) :
                       u \in {TemplateDocker, TemplateOld, None},
                       p \in {<<"8080">>, None}, h \in {<<"h1">>, None}}
    /\ net \in {w \in Worlds : /\ w.netstat_installed \/ w.default_route = <<>>
                              /\ w.files = {}}
    /\ call = NoCall
    /\ earlier = NoCall
    /\ ncalls = 0

\* lines 79-81: the call is made and the configuration read
Enter_get_galaxy_connection ==
    /\ ~running
    /\ ncalls < MaxCalls
    /\ \E use_objects \in BOOLEAN :
          call' = called("get_galaxy_connection", <<use_objects>>,
                         Running(84, None, <<>>))
    /\ ncalls' = ncalls + 1
    /\ UNCHANGED <<environ, net, earlier>>

\* lines 85-114 are entered with what the netstat pipeline prints
Enter_probe_candidates ==
    /\ ~running
    /\ ncalls < MaxCalls
    /\ \E use_objects \in BOOLEAN :
          call' = called("probe_candidates", <<use_objects>>,
                         Running(86, net.default_route, <<>>))
    /\ ncalls' = ncalls + 1
    /\ UNCHANGED <<environ, net, earlier>>

\* line 84
Step_get_ip ==
    /\ running
    /\ call.result.line = 84
    /\ \E got_ip \in {_get_ip(net)} :
          call' = [call EXCEPT !.result =
                      IF got_ip.kind = "raise" THEN got_ip
                      ELSE Running(86, got_ip.value, <<>>)]
    /\ UNCHANGED <<environ, net, earlier, ncalls>>

\* the variant that sends the requests of both candidates at once
Step_both_candidates ==
    /\ running
    /\ call.result.line = 86
    /\ \E conf \in {_get_conf(environ)} :
       \E url \in {templated_url(conf, call.result.value)},
          built \in {failover_url(conf, call.result.value)} :
       \E gi \in {_test_url(net, url.value, conf["api_key"],
                            conf["history_id"], call.args[1])},
          gi2 \in {_test_url(net, built.value, conf["api_key"],
                             conf["history_id"], call.args[1])} :
          call' = [call EXCEPT !.result =
                      IF url.kind = "raise" THEN url
                      ELSE IF gi.value # None
                      THEN Return(gi.value, gi.probes \o gi2.probes)
                      ELSE Running(93, call.result.value,
                                   gi.probes \o gi2.probes)]
    /\ UNCHANGED <<environ, net, earlier, ncalls>>

\* lines 86-89: candidate 1 is made and probed
Step_candidate1 ==
    /\ running
    /\ call.result.line = 86
    /\ \E conf \in {_get_conf(environ)} :
       \E url \in {templated_url(conf, call.result.value)} :
          \/ /\ url.kind = "raise"                     \* line 86 raises
             /\ call' = [call EXCEPT !.result = url]
          \/ /\ url.kind = "return"
             /\ \E gi \in {_test_url(net, url.value, conf["api_key"],
                                     conf["history_id"], call.args[1])} :
                   call' = [call EXCEPT !.result =
                               IF gi.value # None
                               THEN Return(gi.value, gi.probes)
                               ELSE Running(93, call.result.value, gi.probes)]
    /\ UNCHANGED <<environ, net, earlier, ncalls>>

\* lines 93-107: candidate 2 is made
Step_failover_url ==
    /\ running
    /\ call.result.line = 93
    /\ \E conf \in {_get_conf(environ)} :
       \E url \in {conf["galaxy_url"]} :
          \/ /\ url = None                        \* None has no rstrip
             /\ call' = [call EXCEPT !.result =
                            Raise("AttributeError", 93, call.result.probes)]
          \/ /\ url # None
             /\ \E galaxy_url \in {rstrip(url, {"/"})} :              \* line 93
                \E pieces \in {split(galaxy_url, "/")} :
                \E app_path \in {join(<<>>, slice_from(pieces, 3))} : \* line 95
                   call' = [call EXCEPT !.result =
                               IF "galaxy_paster_port" \notin DOMAIN conf
                               THEN Raise("Exception: No port", 100,
                                          call.result.probes)
                               ELSE Running(109,
                                        built_galaxy_url(call.result.value,
                                            conf["galaxy_paster_port"],
                                            app_path),
                                        call.result.probes)]
    /\ UNCHANGED <<environ, net, earlier, ncalls>>

\* the variant with a retry loop: after a failed probe of candidate 2 the
\* invocation starts over at line 86
Step_candidate2_retrying ==
    /\ running
    /\ call.result.line = 109
    /\ \E conf \in {_get_conf(environ)} :
       \E gi \in {_test_url(net, call.result.value, conf["api_key"],
                            conf["history_id"], call.args[1])} :
          call' = [call EXCEPT !.result =
                      IF gi.value # None
                      THEN Return(gi.value, call.result.probes \o gi.probes)
                      ELSE Running(86, net.default_route, <<>>)]
    /\ UNCHANGED <<environ, net, earlier, ncalls>>

\* lines 109-114: candidate 2 is probed
Step_candidate2 ==
    /\ running
    /\ call.result.line = 109
    /\ \E conf \in {_get_conf(environ)} :
       \E gi \in {_test_url(net, call.result.value, conf["api_key"],
                            conf["history_id"], call.args[1])} :
          call' = [call EXCEPT !.result =
                      IF gi.value # None
                      THEN Return(gi.value, call.result.probes \o gi.probes)
                      ELSE Raise("Exception: Could not connect", 114,
                                 call.result.probes \o gi.probes)]
    /\ UNCHANGED <<environ, net, earlier, ncalls>>

NextSteps ==
    \/ Enter_get_galaxy_connection
    \/ Enter_probe_candidates
    \/ Step_get_ip
    \/ Step_candidate1
    \/ Step_failover_url
    \/ Step_candidate2

SpecSteps ==
    /\ InitSteps
    /\ [][NextSteps]_vars
    /\ WF_vars(Step_get_ip)
    /\ WF_vars(Step_candidate1)
    /\ WF_vars(Step_failover_url)
    /\ WF_vars(Step_candidate2)

---------------------------------------------------------------------------
(* Properties *)

IsCall(fn) == call.fn = fn

handle(url, key, use_objects) == <<"GalaxyInstance", url, key, use_objects>>

\* the client can be constructed for the URL and its one read request succeeds
client_works(world, url, key, history_id, use_objects) ==
    LET made == GalaxyInstance(world, url, key, use_objects)
    IN  /\ made.kind = "return"
        /\ (IF use_objects
            THEN histories_get(world, made.value, history_id)
            ELSE get_histories(world, made.value)).kind = "return"

\* the configuration and the gateway lookup allow building both candidates
lookup_possible == "GALAXY_URL" \in DOMAIN environ /\ net.netstat_installed

api_key == environ_get(environ, "API_KEY")
history_id_conf == environ_get(environ, "HISTORY_ID")

\* candidate 1: the template with the gateway address substituted
candidate1 == safe_substitute(environ["GALAXY_URL"], net.default_route)

\* candidate 2: http://<gateway>:<port setting>/<application path>
candidate2 ==
    built_galaxy_url(net.default_route, environ_get(environ, "GALAXY_WEB_PORT"),
                     app_path_of(environ["GALAXY_URL"]))

works(url, use_objects) ==
    client_works(net, url, api_key, history_id_conf, use_objects)

\* C1: when the probe of candidate 1 succeeds, get_galaxy_connection returns
\* the handle on candidate 1 and sends no request to candidate 2.
C1_ShortCircuit ==
    (/\ IsCall("get_galaxy_connection")
     /\ lookup_possible
     /\ works(candidate1, call.args[1]))
    => /\ call.result.kind = "return"
       /\ call.result.value = handle(candidate1, api_key, call.args[1])
       /\ Len(call.result.probes) = 1
       /\ call.result.probes[1][2] = candidate1

\* C2: with the port setting absent, once the probe of candidate 1 has
\* failed the failover raises "No port" and sends no request.
C2_NoPortFault ==
    (/\ IsCall("failover")
     /\ "GALAXY_WEB_PORT" \notin DOMAIN environ)
    => /\ call.result.kind = "raise"
       /\ call.result.exc = "Exception: No port"
       /\ call.result.probes = <<>>

\* C3: get_galaxy_connection ends by returning a handle, by raising the
\* configuration fault or by raising the connection-exhausted error, and in
\* no other way.
C3_ThreeOutcomes ==
    IsCall("get_galaxy_connection")
    => \/ call.result.kind = "return" /\ call.result.value # None
       \/ /\ call.result.kind = "raise"
          /\ call.result.exc \in {"Exception: No port",
                                  "Exception: Could not connect"}

\* C4: when the client is constructed and its read request succeeds,
\* _test_url returns the handle on that URL, in both modes.
C4_ProbeReturnsHandle ==
    (/\ IsCall("_test_url")
     /\ client_works(net, call.args[1], call.args[2], call.args[3], call.args[4]))
    => /\ call.result.kind = "return"
       /\ call.result.value = handle(call.args[1], call.args[2], call.args[4])

\* C5: when the probe of candidate 1 fails, the port is set and the probe of
\* candidate 2 succeeds, get_galaxy_connection returns the handle on
\* candidate 2.
C5_FailoverHandle ==
    (/\ IsCall("get_galaxy_connection")
     /\ lookup_possible
     /\ "GALAXY_WEB_PORT" \in DOMAIN environ
     /\ ~works(candidate1, call.args[1])
     /\ works(candidate2, call.args[1]))
    => /\ call.result.kind = "return"
       /\ call.result.value = handle(candidate2, api_key, call.args[1])

\* C6: when both candidates are built and neither probe succeeds,
\* get_galaxy_connection raises the connection-exhausted error; and that
\* error is raised only then.
C6_Exhausted ==
    IsCall("get_galaxy_connection")
    => /\ (/\ lookup_possible
           /\ ~works(candidate1, call.args[1])
           /\ ~works(candidate2, call.args[1]))
          => /\ call.result.kind = "raise"
             /\ call.result.exc = "Exception: Could not connect"
       /\ (call.result.kind = "raise"
             /\ call.result.exc = "Exception: Could not connect")
          => /\ lookup_possible
             /\ ~works(candidate1, call.args[1])
             /\ ~works(candidate2, call.args[1])

\* C7: _get_ip never raises: it returns an address, possibly empty, and no
\* call of get_galaxy_connection ends with an exception of the lookup.
C7_GetIpNeverRaises ==
    /\ IsCall("_get_ip") => call.result.kind = "return"
    /\ IsCall("get_galaxy_connection")
       => ~(call.result.kind = "raise" /\ call.result.line \in 33..44)

\* C8: an exception of the client's construction or read request becomes
\* the result None of _test_url; no call of _test_url, and no call of
\* get_galaxy_connection, ends with an exception raised inside the probe.
C8_ProbeNeverPropagates ==
    /\ IsCall("_test_url")
       => /\ call.result.kind = "return"
          /\ ~client_works(net, call.args[1], call.args[2], call.args[3],
                           call.args[4])
             => call.result.value = None
    /\ IsCall("get_galaxy_connection")
       => ~(call.result.kind = "raise" /\ call.result.line \in 47..60)

\* C8: the read request of a probe has raised and _test_url returned None
C8_Witness ==
    /\ IsCall("_test_url")
    /\ api_status(net, call.args[1]) = "read_raises"
    /\ Len(call.result.probes) = 1
    /\ call.result.kind = "return"
    /\ call.result.value = None

\* C9: a handle returned by get_galaxy_connection is the handle of a probe
\* of this call that succeeded, on one of the two candidates.
C9_HandleProven ==
    (IsCall("get_galaxy_connection") /\ call.result.kind = "return")
    => /\ call.result.value \in {handle(candidate1, api_key, call.args[1]),
                                 handle(candidate2, api_key, call.args[1])}
       /\ works(call.result.value[2], call.args[1])
       /\ \E i \in DOMAIN call.result.probes :
             call.result.probes[i][2] = call.result.value[2]

\* C9: get_galaxy_connection has returned a handle
C9_Witness ==
    /\ IsCall("get_galaxy_connection")
    /\ call.result.kind = "return"

\* C10: for a configured URL <protocol>://<host>[:<port>]/<path> with any
\* number of slashes at its end, the failover URL is
\* http://<gateway address>:<port setting>/<path>, the path kept segment by
\* segment with its separators.
C10_ReconstructedUrl ==
    (/\ IsCall("failover_url")
     /\ "GALAXY_WEB_PORT" \in DOMAIN environ
     /\ net.default_route = DOCKER_IP \o <<"\n">>)
    => \A pr \in {<<"http">>, <<"https">>}, po \in {<<"8080">>, None},
          pa \in Paths, n \in 0..MaxTrailing :
          environ["GALAXY_URL"] = url_form(pr, <<"oldhost">>, po, pa, n)
          => /\ call.result.kind = "return"
             /\ call.result.value =
                    <<"http", ":", "/", "/">> \o DOCKER_IP \o <<":">>
                        \o environ["GALAXY_WEB_PORT"] \o <<"/">>
                        \o join(<<"/">>, pa)

\* C17: _get_conf never raises; it returns a mapping whose keys are the
\* lowercased ENV_KEYS and galaxy_paster_port, a variable that is not set
\* maps to None, a variable that is set maps to its value, and
\* galaxy_paster_port equals galaxy_web_port whether or not GALAXY_WEB_PORT
\* is set.
C17_ConfMapping ==
    IsCall("_get_conf")
    => /\ call.result.kind = "return"
       /\ DOMAIN call.result.value =
              {"debug", "galaxy_web_port", "notebook_password", "cors_origin",
               "docker_port", "api_key", "history_id", "remote_host",
               "galaxy_url", "galaxy_paster_port"}
       /\ \A key \in ENV_KEYS :
             call.result.value[lower(key)] =
                 (IF key \in DOMAIN environ THEN environ[key] ELSE None)
       /\ call.result.value["galaxy_paster_port"] =
              call.result.value["galaxy_web_port"]

\* C17: _get_conf has returned with GALAXY_WEB_PORT not set and GALAXY_URL set
C17_Witness ==
    /\ IsCall("_get_conf")
    /\ "GALAXY_WEB_PORT" \notin DOMAIN environ
    /\ "GALAXY_URL" \in DOMAIN environ
    /\ call.result.value["galaxy_paster_port"] = None
    /\ call.result.value["galaxy_url"] = environ["GALAXY_URL"]

\* the read request of a run of lines 51-58 was answered: the run got past
\* the construction (lines 52, 55) and the request (lines 53, 56)
read_answered(result) ==
    result.kind = "return" \/ result.line \notin {52, 53, 55, 56}

\* the API answers at the URL and accepts the key
reachable(url, key) == api_status(net, url) = "ok" /\ key \in net.keys

\* C11 as stated: in both modes the probe's read request is answered only
\* if the history named by the history id exists, so the object-mode run and
\* the direct-mode run on the same URL, key and history id fare alike.
C11_SameCheck ==
    IsCall("test_url_try")
    => /\ read_answered(call.result) => call.args[3] \in net.histories
       /\ read_answered(call.result) =
              read_answered(test_url_try(net, call.args[1], call.args[2],
                                         call.args[3], ~call.args[4]))

\* C11, amended: the object-mode probe asks for the history named by the
\* history id and is answered exactly when the API is reachable with the key
\* and that history exists; the direct-mode probe asks for the list of
\* histories, names no history, and is answered exactly when the API is
\* reachable with the key; so wherever the object-mode request is answered
\* the direct-mode request is answered too, and not the other way round.
C11_ProbeChecks ==
    IsCall("test_url_try")
    => LET url == call.args[1]
           key == call.args[2]
           history_id == call.args[3]
           use_objects == call.args[4]
           answered == read_answered(call.result)
       IN  /\ use_objects
              => /\ answered = (reachable(url, key) /\ history_id \in net.histories)
                 /\ call.result.probes \in
                        {<<>>, << <<"histories.get", url, key, history_id>> >>}
                 /\ answered
                    => read_answered(test_url_try(net, url, key, history_id,
                                                  FALSE))
           /\ ~use_objects
              => /\ answered = reachable(url, key)
                 /\ call.result.probes \in
                        {<<>>, << <<"histories.get_histories", url, key, None>> >>}

\* C11: the direct-mode request was answered although the named history does
\* not exist, where the object-mode request is refused
C11_Witness ==
    /\ IsCall("test_url_try")
    /\ ~call.args[4]
    /\ read_answered(call.result)
    /\ call.args[3] \notin net.histories
    /\ ~read_answered(test_url_try(net, call.args[1], call.args[2],
                                   call.args[3], TRUE))

\* the template with the address put in place of each placeholder token and
\* every other token kept as it is
RECURSIVE gateway_substituted(_, _)
gateway_substituted(template, address) ==
    IF template = <<>> THEN <<>>
    ELSE (IF Head(template) \in {"$DOCKER_HOST", "${DOCKER_HOST}"}
          THEN address ELSE <<Head(template)>>)
             \o gateway_substituted(Tail(template), address)

\* the address of the default gateway in the routing table
gateway_address == strip(net.default_route)

\* C12: candidate 1 is the configured template with the gateway address in
\* place of the $DOCKER_HOST placeholder, and is the template itself, token
\* for token, when the template holds no placeholder.
C12_Candidate1 ==
    (IsCall("templated_url") /\ "GALAXY_URL" \in DOMAIN environ)
    => /\ call.result.kind = "return"
       /\ call.result.value =
              gateway_substituted(environ["GALAXY_URL"], gateway_address)

download_ops == {"download", "download_dataset"}

\* C14: put called without a history id uploads the file into the history
\* named by HISTORY_ID: every request of its lines 132-137 that names a
\* history names that one, and where the API is reachable with the key and
\* that history exists, put returns with the file uploaded into it.
C14_CurrentHistory ==
    /\ (/\ IsCall("put_upload")
        /\ call.args[2] = None
        /\ "HISTORY_ID" \in DOMAIN environ)
       => /\ call.result.probes # <<>>
          /\ \A i \in DOMAIN call.result.probes :
                call.result.probes[i][4] = history_id_conf
    /\ (/\ IsCall("put")
        /\ call.args[2] = None
        /\ lookup_possible
        /\ history_id_conf \in net.histories
        /\ works(candidate2, call.args[3]))
       => /\ call.result.kind = "return"
          /\ <<history_id_conf, call.args[1]>> \in net.uploaded

\* C15: a get that finds /import/<dataset_id> in place sends no download
\* request and returns that path, so a dataset is downloaded at most once;
\* and every get that returns, returns /import/<dataset_id>.
C15_DownloadedOnce ==
    call.fn \in {"get", "get_cached"}
    => /\ call.args[4]
          => /\ call.result.kind = "return"
             /\ \A i \in DOMAIN call.result.probes :
                   call.result.probes[i][1] \notin download_ops
       /\ call.result.kind = "return"
          => call.result.value = import_path(call.args[1])

\* the read request of a probe of the URL
probe_request(url, use_objects) ==
    IF use_objects
    THEN <<"histories.get", url, api_key, history_id_conf>>
    ELSE <<"histories.get_histories", url, api_key, None>>

\* the invocation has got past the probe of candidate 1
past_candidate1 == running /\ call.result.line \in {93, 109}

\* C16: within one invocation at most two requests are sent, the one to
\* candidate 1 before the one to candidate 2; no request to candidate 2 is
\* sent before the invocation is past line 109, which it reaches only after
\* the probe of candidate 1 has returned None; and an invocation that
\* returns a handle has sent its last request to the handle's URL.
C16_Sequential ==
    call.fn \in {"get_galaxy_connection", "probe_candidates"}
    => IF "GALAXY_URL" \notin DOMAIN environ
       THEN call.result.probes = <<>>
       ELSE LET r1 == probe_request(candidate1, call.args[1])
                r2 == probe_request(candidate2, call.args[1])
            IN  /\ call.result.probes \in {<<>>, <<r1>>, <<r2>>, <<r1, r2>>}
                /\ running => call.result.probes \in {<<>>, <<r1>>}
                /\ past_candidate1
                   => /\ _test_url(net, candidate1, api_key, history_id_conf,
                                   call.args[1]).value = None
                      /\ call.result.probes =
                             _test_url(net, candidate1, api_key,
                                       history_id_conf, call.args[1]).probes
                /\ (call.result.kind = "return" /\ call.result.probes # <<>>)
                   => call.result.probes[Len(call.result.probes)][2] =
                          call.result.value[2]

\* C16: the probe of candidate 1 has sent its request and returned None, and
\* the invocation stands before the probe of candidate 2
C16_Witness ==
    /\ call.fn = "probe_candidates"
    /\ running
    /\ call.result.line = 109
    /\ Len(call.result.probes) = 1
    /\ call.result.probes[1][2] = candidate1

\* the operations of the API that only read
read_ops == {"histories.get", "histories.get_histories"}

\* the requests of the latest call only read, and carry the configured key
\* and, where they name a history, the configured history id
requests_read_only ==
    \A i \in DOMAIN call.result.probes :
       /\ call.result.probes[i][1] \in read_ops
       /\ call.result.probes[i][3] = api_key
       /\ call.result.probes[i][4] =
              (IF call.args[1] THEN history_id_conf ELSE None)

\* C18: get_galaxy_connection, and its lines 85-114, send read requests
\* only, each with the access key of the configuration and, in the object
\* mode, with its history id, the same for both probes; nothing is uploaded,
\* no file is written, and the call leaves the environment and the world as
\* they were.
C18_ReadOnly ==
    /\ [](call.fn \in {"get_galaxy_connection", "probe_candidates"}
          => /\ requests_read_only
             /\ net.uploaded = {}
             /\ net.files = {})
    /\ [][call'.fn \in {"get_galaxy_connection", "probe_candidates"}
          => environ' = environ /\ net' = net]_vars

\* C18: both probes have sent their request in the object mode, with the
\* configured key and history id
C18_Witness ==
    /\ IsCall("probe_candidates")
    /\ call.args[1]
    /\ Len(call.result.probes) = 2
    /\ "API_KEY" \in DOMAIN environ
    /\ "HISTORY_ID" \in DOMAIN environ
    /\ call.result.probes[1][3] = environ["API_KEY"]
    /\ call.result.probes[2][3] = environ["API_KEY"]
    /\ call.result.probes[1][4] = environ["HISTORY_ID"]
    /\ call.result.probes[2][4] = environ["HISTORY_ID"]

\* the invocation has ended, by a return or by an exception
ended ==
    /\ call.fn \in {"get_galaxy_connection", "probe_candidates"}
    /\ call.result.kind \in {"return", "raise"}

\* C19: every blocking call returning or raising, an invocation that has
\* been entered ends, by returning a handle or by raising; on the way no
\* statement runs a second time, so neither probe is repeated; and the
\* invocation ends as get_galaxy_connection, or its lines 85-114, is defined
\* to end on that environment and world.
C19_Terminates ==
    /\ [][running => \/ call'.result.kind # "running"
                     \/ call'.result.line > call.result.line]_vars
    /\ [](ended
          => call.result =
                 (IF call.fn = "get_galaxy_connection"
                  THEN get_galaxy_connection(environ, net, call.args[1])
                  ELSE probe_candidates(net, _get_conf(environ),
                                        net.default_route, call.args[1])))
    /\ (running ~> ended)

\* C19: an invocation has ended after both probes, each made once
C19_Witness ==
    /\ ended
    /\ call.result.kind = "raise"
    /\ call.result.exc = "Exception: Could not connect"
    /\ Len(call.result.probes) = 2


===========================================================================
